---- MODULE Spec2Model ----
\* RuneBird: the token-bucket limiter with its retry queue (internal/rate/rate.go),
\* the scheduler (internal/scheduler) and the /send handler (internal/server/server.go),
\* as one state machine.  Time is the wall clock in whole seconds.  The token bucket
\* is golang.org/x/time/rate's Limiter, modelled by what ReserveN, WaitN and
\* Reservation.Cancel do to its three fields (tokens, last, lastEvent).
EXTENDS Integers, Sequences, FiniteSets, TLC

VARIABLES
    cfg,          \* config.RateLimitConfig: [PerHour, Burst]
    now,          \* time.Now(), seconds
    limiter,      \* rate.Limiter of x/time/rate: [tokens, last, lastEvent]
    queue,        \* Limiter.queue: sequence of EmailTask
    l_isRunning,  \* Limiter.isRunning
    l_cancelled,  \* Limiter.ctx is done (cancel() was called)
    l_stopping,   \* a Limiter.Stop call is between its Unlock and its cancel()
    tasks,        \* Scheduler.tasks: map id -> ScheduledTask
    s_isRunning,  \* Scheduler.isRunning
    s_cancelled,  \* Scheduler.ctx is done
    s_stopping,   \* a Scheduler.Stop call is between its Unlock and its cancel()
    pc,           \* position of every goroutine
    res,          \* the rate.Reservation a goroutine holds (CanSend / WaitN)
    mail,         \* the email a goroutine is working on: [Recipients, Subject, Body, uid]
    ready,        \* processQueue: readyTasks still to be looked at, per drain worker
    scan,         \* processTasks: [now, start, visited, toDelete, id, task] per poll worker
    resp,         \* handleSend: the HTTP status written, per request (0: none yet)
    metrics,      \* the Prometheus counters: [sent, failed, scheduled]
    ret,          \* the latest Schedule call: its arguments and whether it returned an error
    mu,           \* the two mutexes: [s, l], the goroutine holding Scheduler.mu and Limiter.mu
    h_req,        \* the HTTP request a handler goroutine is serving
    hist          \* observations: what was granted, sent, dispatched, returned

vars == <<cfg, now, limiter, queue, l_isRunning, l_cancelled, l_stopping,
          tasks, s_isRunning, s_cancelled, s_stopping,
          pc, res, mail, ready, scan, resp, metrics, ret, mu, h_req, hist>>

\* ---------------------------------------------------------------- bounds

MaxTicks == 3
MaxSchedTicks == 1
MaxQuotaTicks == 1
MaxBurst == 2
MaxSenders == 2
MaxWorkers == 2
MaxTasks == 2
MaxCalls == 4
MaxDrainTicks == 6

\* ------------------------------------------------------ program constants

SecondsPerHour == 3600
RetryDelay == 10

\* The clock moves in steps of half the retry delay (5 s).
Step == RetryDelay \div 2

\* rate.go:42 divides PerHour by 3600.0; one token is SecondsPerHour units here and
\* the bucket gains PerHour units a second, so every balance is a whole number.
\* The two rates give a token every step and every other step.
PerHourChoices == {SecondsPerHour \div Step, SecondsPerHour \div (2 * Step)}

Senders == {<<"h", i>> : i \in 1..MaxSenders}
LWorkers == {<<"lw", i>> : i \in 1..MaxWorkers}
SWorkers == {<<"sw", i>> : i \in 1..MaxWorkers}
\* Goroutines that call CanSend and nothing else, as rate_test.go does.
Callers == {<<"c", i>> : i \in 1..MaxSenders}

\* main (part_003), which builds the limiter.
Main == <<"main", 1>>

Procs == Senders \cup LWorkers \cup SWorkers \cup Callers \cup {Main}

\* A rate.Reservation, with two observations beside its fields: the limiter as it
\* was before the reservation (pre) and whether no other goroutine has used the
\* limiter since (alone).
NoRes == [ok |-> FALSE, tokens |-> 0, timeToAct |-> 0,
          pre |-> [tokens |-> 0, last |-> 0, lastEvent |-> 0], alone |-> FALSE]
NoMail == [Recipients |-> <<>>, Subject |-> "", Body |-> ""]

\* ------------------------------------------- golang.org/x/time/rate.Limiter

\* rate.InfDuration: longer than any time the clock reaches.
InfDuration == SecondsPerHour * SecondsPerHour

\* Limit.tokensFromDuration, Limit.durationFromTokens (a limit <= 0 gives 0 and
\* InfDuration).
tokensFromDuration(d) == IF cfg.PerHour <= 0 THEN 0 ELSE d * cfg.PerHour

durationFromTokens(t) == IF cfg.PerHour <= 0 THEN InfDuration ELSE t \div cfg.PerHour

BurstUnits == cfg.Burst * SecondsPerHour

\* Limiter.advance: the balance at time t, capped at burst.
advanceUncapped(lim, t) ==
    LET lst == IF t < lim.last THEN t ELSE lim.last
    IN  lim.tokens + tokensFromDuration(t - lst)

advance(lim, t) ==
    LET lst == IF t < lim.last THEN t ELSE lim.last
        tk  == lim.tokens + tokensFromDuration(t - lst)
    IN  IF tk > BurstUnits THEN BurstUnits ELSE tk

\* Limiter.reserveN(t, 1, InfDuration): always ok, the balance may go negative.
reserveTokens(lim, t) == advance(lim, t) - SecondsPerHour

reserveWait(lim, t) ==
    IF reserveTokens(lim, t) < 0 THEN durationFromTokens(-reserveTokens(lim, t)) ELSE 0

reserveN(lim, t) ==
    [lim |-> [tokens |-> reserveTokens(lim, t), last |-> t,
              lastEvent |-> t + reserveWait(lim, t)],
     r   |-> [ok |-> TRUE, tokens |-> 1, timeToAct |-> t + reserveWait(lim, t),
              pre |-> lim, alone |-> TRUE]]

\* Reservation.CancelAt(t): gives back what was reserved, less what later
\* reservations were promised on top of it; nothing once timeToAct has passed.
restoreTokens(lim, r) ==
    r.tokens * SecondsPerHour - tokensFromDuration(lim.lastEvent - r.timeToAct)

CancelAt(lim, r, t) ==
    IF ~r.ok \/ r.tokens = 0 \/ r.timeToAct < t THEN lim
    ELSE IF restoreTokens(lim, r) <= 0 THEN lim
    ELSE LET tk   == advance(lim, t) + restoreTokens(lim, r)
             capd == IF tk > BurstUnits THEN BurstUnits ELSE tk
             prevEvent == r.timeToAct - durationFromTokens(r.tokens * SecondsPerHour)
         IN  [tokens |-> capd, last |-> t,
              lastEvent |-> IF r.timeToAct = lim.lastEvent /\ ~(prevEvent < t)
                            THEN prevEvent ELSE lim.lastEvent]

\* ------------------------------------------------------------ collaborators

\* templates.TemplateManager.Render: an unknown template is an error; "plain" has
\* no "subject" block, so its subject is empty.
Templates == {"welcome", "plain"}

RenderErrNever(name) == FALSE

RenderErr(name) == name \notin Templates

RenderBody(name) == IF name = "welcome" THEN "<p>welcome</p>" ELSE "<p>plain</p>"

RenderSubject(name) == IF name = "welcome" THEN "Welcome" ELSE ""

\* ------------------------------------------------------------------- state

\* A time.Time: the instant in seconds and the location it is written in.
KeepLocation(t) == t

UTC(t) == [t EXCEPT !.loc = "UTC"]

NoTask == [ID |-> "", Template |-> "", Recipients |-> <<>>, Data |-> "",
           SendAt |-> [sec |-> 0, loc |-> "UTC"], uid |-> 0]

\* processTasks' locals: now, toDelete, the (id, task) handed to processTask; start
\* and visited are the entries the range loop began with and has produced.
NoScan == [now |-> 0, start |-> {}, visited |-> {}, toDelete |-> <<>>, task |-> NoTask]

NoIn == [Template |-> "", Recipients |-> <<>>, Data |-> "",
         SendAt |-> [sec |-> 0, loc |-> "UTC"]]

NoRet == [id |-> "", in |-> NoIn, err |-> FALSE]

\* sync.Mutex: the goroutine that holds it, Free when nobody does.
Free == <<>>

NoLock == [s |-> Free, l |-> Free]

Lock(m, k, p) == [m EXCEPT ![k] = p]

Unlock(m, k) == [m EXCEPT ![k] = Free]

\* A call that locks on entry and unlocks before it returns: the mutex afterwards.
Locked(m, k, p) == Unlock(Lock(m, k, p), k)

\* part_002:117: processTasks unlocks s.mu before it calls processTask.
HoldForDispatch(m) == m

UnlockForDispatch(m) == Unlock(m, "s")

\* No request: the handler goroutine has not been started.
NoReq == [Path |-> "", Method |-> "", Decodes |-> FALSE, Template |-> "",
          Recipients |-> <<>>, SendAt |-> [sec |-> 0, loc |-> "UTC"]]

\* Observations (no code reads them).
\*   grantsNow   CanSend calls made, and answered true, since the clock last moved
\*   grants      CanSend calls answered true so far
\*   sends       Sender.Send invocations so far; winStart: start of the observation
\*               window (-1: none), winSends: the invocations since then
\*   sent        the emails handed to Sender.Send
\*   drained     the retry items for which the drain loop was granted a token
\*   nextQid     identity of the next retry-queue entry; returned: the entries
\*               GetQueuedEmails has returned; twice: one was returned again;
\*               kept: the entries a GetQueuedEmails call has left in the queue
\*   nextUid     identity of the next accepted task; dispatched: processTask calls
\*               per accepted task; removed: deletions that hit the task's entry
\*   emptiedAt   the instant at which Burst grants emptied the full bucket, while
\*               nothing has been taken from it since (-1: otherwise)
\*   calls       CanSend calls made by the goroutines that only call CanSend
NoHist == [grantsNow |-> 0, grants |-> 0, sends |-> 0, winStart |-> -1, winSends |-> 0,
           sent |-> {}, drained |-> {},
           nextQid |-> 1, returned |-> {}, twice |-> FALSE, kept |-> {},
           nextUid |-> 1, dispatched |-> <<>>, removed |-> <<>>, emptiedAt |-> -1,
           calls |-> 0]

\* rate.go:43: rate.NewLimiter(limit, burst), a full bucket.
NewLimiter(c) == [tokens |-> c.Burst * SecondsPerHour, last |-> 0, lastEvent |-> 0]

\* Everything but the limiter's configuration, its bucket and the goroutines.
InitRest ==
    /\ now = 0
    /\ queue = <<>>
    /\ l_isRunning = FALSE
    /\ l_cancelled = FALSE
    /\ l_stopping = FALSE
    /\ tasks = <<>>
    /\ s_isRunning = FALSE
    /\ s_cancelled = FALSE
    /\ s_stopping = FALSE
    /\ res = [p \in Procs |-> NoRes]
    /\ mail = [p \in Procs |-> NoMail]
    /\ ready = [w \in LWorkers |-> <<>>]
    /\ scan = [w \in SWorkers |-> NoScan]
    /\ resp = [h \in Senders |-> 0]
    /\ metrics = [sent |-> 0, failed |-> 0, scheduled |-> 0]
    /\ ret = NoRet
    /\ mu = NoLock
    /\ h_req = [h \in Senders |-> NoReq]
    /\ hist = NoHist

\* The state after rate.New and scheduler.New, nothing started.
Init ==
    /\ cfg \in [PerHour : PerHourChoices, Burst : 1..MaxBurst]
    /\ limiter = NewLimiter(cfg)
    /\ pc = [p \in Procs |-> "none"]
    /\ InitRest

\* The variables of the rate limiter's callers that a scheduler step leaves alone,
\* and the other way round.
schedVars == <<tasks, s_isRunning, s_cancelled, s_stopping, scan, ret>>
drainVars == <<queue, l_isRunning, l_cancelled, l_stopping, ready>>
httpVars == <<resp, metrics>>

\* ------------------------------------------------------------------- clock

TickWithin(n) ==
    /\ now < n * Step
    /\ now' = now + Step
    /\ hist' = [hist EXCEPT !.grantsNow = 0]
    /\ UNCHANGED <<cfg, mu, h_req, limiter, pc, res, mail, schedVars, drainVars, httpVars>>

Tick == TickWithin(MaxTicks)

\* The clock over the scheduler's shorter horizon.
ShortTick == TickWithin(MaxSchedTicks)

QuotaTick == TickWithin(MaxQuotaTicks)

\* An observer starts its window (once, at any moment).
MarkWindow ==
    /\ hist.winStart = -1
    /\ hist' = [hist EXCEPT !.winStart = now]
    /\ UNCHANGED <<cfg, mu, h_req, now, limiter, pc, res, mail, schedVars, drainVars, httpVars>>

\* ------------------------------------------------- Limiter.CanSend (rate.go)

\* Another goroutine used the limiter: the reservations in flight are no longer alone.
Others(p) ==
    [q \in Procs |-> IF q # p /\ res[q].ok THEN [res[q] EXCEPT !.alone = FALSE]
                     ELSE res[q]]

Granted(h) ==
    [h EXCEPT !.grantsNow = @ + 1, !.grants = @ + 1,
              !.emptiedAt = IF h.grantsNow + 1 = cfg.Burst THEN now ELSE -1]

\* CanSend's test of the reservation: a token is there now.
DelayGrantsAlways(r, t) == TRUE

DelayGrants(r, t) == r.timeToAct - t <= 0

\* rate.go:88-93: ReserveN(time.Now(), 1); with no delay CanSend returns true.
CanSendReserve(p) ==
    /\ pc[p] = "cansend"
    /\ limiter' = reserveN(limiter, now).lim
    /\ IF DelayGrants(reserveN(limiter, now).r, now)
       THEN /\ pc' = [pc EXCEPT ![p] = "granted"]
            /\ res' = Others(p)
            /\ hist' = Granted(hist)
       ELSE /\ pc' = [pc EXCEPT ![p] = "delay"]
            /\ res' = [Others(p) EXCEPT ![p] = reserveN(limiter, now).r]
            /\ UNCHANGED hist
    /\ UNCHANGED <<cfg, mu, h_req, now, mail, schedVars, drainVars, httpVars>>

\* rate.go:91: reservation.Delay() reads the clock again; the delay has run out when
\* the clock has moved past timeToAct since ReserveN.
CanSendDelay(p) ==
    /\ pc[p] = "delay"
    /\ IF DelayGrants(res[p], now)
       THEN /\ pc' = [pc EXCEPT ![p] = "granted"]
            /\ res' = [res EXCEPT ![p] = NoRes]
            /\ hist' = [hist EXCEPT !.grants = @ + 1, !.emptiedAt = -1]
       ELSE /\ pc' = [pc EXCEPT ![p] = "cancel"]
            /\ UNCHANGED <<res, hist>>
    /\ UNCHANGED <<cfg, mu, h_req, now, limiter, mail, schedVars, drainVars, httpVars>>

\* rate.go:95-97: reservation.Cancel(), CanSend returns false.
CanSendCancel(p) ==
    /\ pc[p] = "cancel"
    /\ limiter' = CancelAt(limiter, res[p], now)
    /\ pc' = [pc EXCEPT ![p] = "denied"]
    /\ res' = Others(p)
    /\ UNCHANGED <<cfg, mu, h_req, now, mail, hist, schedVars, drainVars, httpVars>>

\* ------------------------------------- rate.Limiter.WaitN(l.ctx, 1) (rate.go)

\* Where a goroutine goes on after WaitN: handleSend to its reply, processQueue to
\* its next ready task.
AfterWait(p) == IF p \in Senders THEN "finish" ELSE "next"

\* WaitN: an error at once when ctx is done; else reserve, and sleep for the delay.
WaitNReserve(p) ==
    /\ pc[p] = "waitn"
    /\ IF l_cancelled
       THEN /\ pc' = [pc EXCEPT ![p] = AfterWait(p)]
            /\ UNCHANGED <<limiter, res, hist>>
       ELSE /\ limiter' = reserveN(limiter, now).lim
            /\ hist' = [hist EXCEPT !.emptiedAt = -1]
            /\ IF reserveWait(limiter, now) = 0
               THEN /\ pc' = [pc EXCEPT ![p] = AfterWait(p)]
                    /\ res' = Others(p)
               ELSE /\ pc' = [pc EXCEPT ![p] = "sleep"]
                    /\ res' = [Others(p) EXCEPT ![p] = reserveN(limiter, now).r]
    /\ UNCHANGED <<cfg, mu, h_req, now, mail, schedVars, drainVars, httpVars>>

\* WaitN: the timer fired.
WaitNWake(p) ==
    /\ pc[p] = "sleep"
    /\ now >= res[p].timeToAct
    /\ pc' = [pc EXCEPT ![p] = AfterWait(p)]
    /\ res' = [res EXCEPT ![p] = NoRes]
    /\ UNCHANGED <<cfg, mu, h_req, now, limiter, mail, hist, schedVars, drainVars, httpVars>>

\* WaitN: ctx was cancelled during the sleep; the reservation is cancelled.
WaitNCancel(p) ==
    /\ pc[p] = "sleep"
    /\ l_cancelled
    /\ limiter' = CancelAt(limiter, res[p], now)
    /\ pc' = [pc EXCEPT ![p] = AfterWait(p)]
    /\ res' = [Others(p) EXCEPT ![p] = NoRes]
    /\ UNCHANGED <<cfg, mu, h_req, now, mail, hist, schedVars, drainVars, httpVars>>

\* ------------------------------------------------ the retry queue (rate.go)

\* Limiter.QueueEmail: append one EmailTask, RetryAt ten seconds from now.
QueueEmailNoDelay(q, m, t, qid) ==
    Append(q, [Recipients |-> m.Recipients, Subject |-> m.Subject, Body |-> m.Body,
               RetryAt |-> t, qid |-> qid])

QueueEmail(q, m, t, qid) ==
    Append(q, [Recipients |-> m.Recipients, Subject |-> m.Subject, Body |-> m.Body,
               RetryAt |-> t + RetryDelay, qid |-> qid])

\* Limiter.GetQueuedEmails: now.After(task.RetryAt) splits the queue in two.
IsReady(task, t) == t > task.RetryAt

ReadyOf(q, t) == SelectSeq(q, LAMBDA task : IsReady(task, t))

RemainingKeepAll(q, t) == q

RemainingOf(q, t) == SelectSeq(q, LAMBDA task : ~IsReady(task, t))

Qids(q) == {q[i].qid : i \in 1..Len(q)}

Returned(h, rd) ==
    [h EXCEPT !.returned = @ \cup Qids(rd),
              !.twice = @ \/ (Qids(rd) \cap h.returned # {})]

Kept(h, rm) == [h EXCEPT !.kept = @ \cup Qids(rm)]

\* ---------------------------------------- Limiter.Start / Stop (rate.go)

FreeSlot(W) == CHOOSE w \in W : pc[w] = "none" /\ \A v \in W : pc[v] = "none" => v[2] >= w[2]

\* rate.go:58-69: no-op when running; else isRunning = true and go processQueue().
L_Start ==
    /\ mu.l = Free
    /\ mu' = Locked(mu, "l", Main)
    /\ IF l_isRunning
       THEN UNCHANGED <<l_isRunning, pc>>
       ELSE /\ \E w \in LWorkers : pc[w] = "none"
            /\ l_isRunning' = TRUE
            /\ pc' = [pc EXCEPT ![FreeSlot(LWorkers)] = "select"]
    /\ UNCHANGED <<cfg, h_req, now, limiter, queue, l_cancelled, l_stopping, ready,
                   res, mail, hist, schedVars, httpVars>>

\* rate.go:72-79: no-op when not running; else isRunning = false, Unlock.
L_Stop ==
    /\ mu.l = Free
    /\ mu' = Locked(mu, "l", Main)
    /\ IF ~l_isRunning
       THEN UNCHANGED <<l_isRunning, l_stopping>>
       ELSE /\ l_isRunning' = FALSE
            /\ l_stopping' = TRUE
    /\ UNCHANGED <<cfg, h_req, now, limiter, queue, l_cancelled, ready,
                   pc, res, mail, hist, schedVars, httpVars>>

\* rate.go:81: l.cancel().
L_StopCancel ==
    /\ l_stopping
    /\ l_stopping' = FALSE
    /\ l_cancelled' = TRUE
    /\ UNCHANGED <<cfg, mu, h_req, now, limiter, queue, l_isRunning, ready,
                   pc, res, mail, hist, schedVars, httpVars>>

\* ------------------------------------------- Limiter.processQueue (rate.go)

\* rate.go:149-150: <-l.ctx.Done(), the worker returns.
LW_Exit(w) ==
    /\ pc[w] = "select"
    /\ l_cancelled
    /\ pc' = [pc EXCEPT ![w] = "none"]
    /\ UNCHANGED <<cfg, mu, h_req, now, limiter, res, mail, hist, schedVars, drainVars, httpVars>>

\* rate.go:151-159: a tick; return when not running, else readyTasks = GetQueuedEmails().
LW_Tick(w) ==
    /\ mu.l = Free
    /\ mu' = Locked(mu, "l", w)
    /\ pc[w] = "select"
    /\ IF ~l_isRunning
       THEN /\ pc' = [pc EXCEPT ![w] = "none"]
            /\ UNCHANGED <<queue, ready, hist>>
       ELSE /\ pc' = [pc EXCEPT ![w] = "next"]
            /\ ready' = [ready EXCEPT ![w] = ReadyOf(queue, now)]
            /\ queue' = RemainingOf(queue, now)
            /\ hist' = Kept(Returned(hist, ReadyOf(queue, now)), RemainingOf(queue, now))
    /\ UNCHANGED <<cfg, h_req, now, limiter, l_isRunning, l_cancelled, l_stopping,
                   res, mail, schedVars, httpVars>>

\* rate.go:160-161: the next ready task, or back to the select.
LW_Next(w) ==
    /\ pc[w] = "next"
    /\ IF ready[w] = <<>>
       THEN /\ pc' = [pc EXCEPT ![w] = "select"]
            /\ mail' = [mail EXCEPT ![w] = NoMail]
            /\ UNCHANGED ready
       ELSE /\ pc' = [pc EXCEPT ![w] = "cansend"]
            /\ mail' = [mail EXCEPT ![w] = Head(ready[w])]
            /\ ready' = [ready EXCEPT ![w] = Tail(ready[w])]
    /\ UNCHANGED <<cfg, mu, h_req, now, limiter, queue, l_isRunning, l_cancelled, l_stopping,
                   res, hist, schedVars, httpVars>>

\* rate.go:161-166: CanSend said yes: the task is logged and WaitN is called.
LW_Process(w) ==
    /\ pc[w] = "granted"
    /\ pc' = [pc EXCEPT ![w] = "waitn"]
    /\ hist' = [hist EXCEPT !.drained = @ \cup {[Recipients |-> mail[w].Recipients,
                    Subject |-> mail[w].Subject, Body |-> mail[w].Body]}]
    /\ UNCHANGED <<cfg, mu, h_req, now, limiter, res, mail, schedVars, drainVars, httpVars>>

\* rate.go:167-170: the else branch queues the task again, every time.
RequeueUpTo(q, m, t, qid) == IF qid > MaxSenders THEN q ELSE QueueEmail(q, m, t, qid)

Requeue(q, m, t, qid) == QueueEmail(q, m, t, qid)

\* rate.go:167-170: CanSend said no: the task is queued again.
LW_Requeue(w) ==
    /\ mu.l = Free
    /\ mu' = Locked(mu, "l", w)
    /\ pc[w] = "denied"
    /\ pc' = [pc EXCEPT ![w] = "next"]
    /\ res' = [res EXCEPT ![w] = NoRes]
    /\ queue' = Requeue(queue, mail[w], now, hist.nextQid)
    /\ hist' = [hist EXCEPT !.nextQid = @ + 1]
    /\ UNCHANGED <<cfg, h_req, now, limiter, l_isRunning, l_cancelled, l_stopping, ready,
                   mail, schedVars, httpVars>>

\* --------------------------------------------- Server.handleSend (server.go)

\* A /send request as the handler sees it.
Requests ==
    [Method : {"POST", "GET"}, Decodes : BOOLEAN,
     Template : {"", "welcome", "plain", "missing"}, Recipients : {<<>>, <<"a@x">>}]

\* The request as the handler goroutine keeps it (POST /send has no SendAt).
SendReq(r) ==
    [Path |-> "/send", Method |-> r.Method, Decodes |-> r.Decodes,
     Template |-> r.Template, Recipients |-> r.Recipients, SendAt |-> NoReq.SendAt]

\* server.go:117-136: the status of a request that is turned away, 0 for a valid one.
ValidationStatusAnyMethod(req) ==
    IF ~req.Decodes THEN 400
    ELSE IF req.Template = "" THEN 400
    ELSE IF Len(req.Recipients) = 0 THEN 400
    ELSE 0

ValidationStatus(req) ==
    IF req.Method # "POST" THEN 405
    ELSE IF ~req.Decodes THEN 400
    ELSE IF req.Template = "" THEN 400
    ELSE IF Len(req.Recipients) = 0 THEN 400
    ELSE 0

\* server.go:146-148 (the scheduler's default at part_002:140-142 differs in its text).
DefaultSubjectNone(prefix, subject, template) == subject

DefaultSubject(prefix, subject, template) ==
    IF subject = "" THEN prefix \o " (" \o template \o ")" ELSE subject

\* server.go:116-136: a request that fails validation is answered and nothing else.
HS_Reject(h, req) ==
    /\ pc[h] = "none"
    /\ ValidationStatus(req) # 0
    /\ pc' = [pc EXCEPT ![h] = "done"]
    /\ resp' = [resp EXCEPT ![h] = ValidationStatus(req)]
    /\ h_req' = [h_req EXCEPT ![h] = SendReq(req)]
    /\ UNCHANGED <<cfg, mu, now, limiter, res, mail, metrics, hist, schedVars, drainVars>>

\* server.go:138-148: Render; an error is a 500 and one more failed email.
HS_Render(h, req) ==
    /\ pc[h] = "none"
    /\ ValidationStatus(req) = 0
    /\ IF RenderErr(req.Template)
       THEN /\ pc' = [pc EXCEPT ![h] = "done"]
            /\ resp' = [resp EXCEPT ![h] = 500]
            /\ metrics' = [metrics EXCEPT !.failed = @ + 1]
            /\ UNCHANGED mail
       ELSE /\ pc' = [pc EXCEPT ![h] = "cansend"]
            /\ mail' = [mail EXCEPT ![h] =
                    [Recipients |-> req.Recipients,
                     Subject |-> DefaultSubject("Email from RuneBird",
                                     RenderSubject(req.Template), req.Template),
                     Body |-> RenderBody(req.Template)]]
            /\ UNCHANGED <<resp, metrics>>
    /\ h_req' = [h_req EXCEPT ![h] = SendReq(req)]
    /\ UNCHANGED <<cfg, mu, now, limiter, res, hist, schedVars, drainVars>>

Sent(h, m) ==
    [h EXCEPT !.sent = @ \cup {m},
              !.sends = @ + 1,
              !.winSends = IF h.winStart >= 0 THEN @ + 1 ELSE @]

\* server.go:150-156: CanSend said yes: Sender.Send; an error is a 500.
HS_Send(h, ok) ==
    /\ pc[h] = "granted"
    /\ hist' = Sent(hist, mail[h])
    /\ IF ok
       THEN /\ pc' = [pc EXCEPT ![h] = "waitn"]
            /\ UNCHANGED <<resp, metrics>>
       ELSE /\ pc' = [pc EXCEPT ![h] = "done"]
            /\ resp' = [resp EXCEPT ![h] = 500]
            /\ metrics' = [metrics EXCEPT !.failed = @ + 1]
    /\ UNCHANGED <<cfg, mu, h_req, now, limiter, res, mail, schedVars, drainVars>>

\* server.go:157-161, 168-169: after ConsumeToken the email counts as sent, 200.
HS_Finish(h) ==
    /\ pc[h] = "finish"
    /\ pc' = [pc EXCEPT ![h] = "done"]
    /\ resp' = [resp EXCEPT ![h] = 200]
    /\ metrics' = [metrics EXCEPT !.sent = @ + 1]
    /\ UNCHANGED <<cfg, mu, h_req, now, limiter, res, mail, hist, schedVars, drainVars>>

\* server.go:162-169: CanSend said no: QueueEmail, the sent counter, 200.
HS_Queue(h) ==
    /\ mu.l = Free
    /\ mu' = Locked(mu, "l", h)
    /\ pc[h] = "denied"
    /\ pc' = [pc EXCEPT ![h] = "done"]
    /\ res' = [res EXCEPT ![h] = NoRes]
    /\ queue' = QueueEmail(queue, mail[h], now, hist.nextQid)
    /\ hist' = [hist EXCEPT !.nextQid = @ + 1]
    /\ resp' = [resp EXCEPT ![h] = 200]
    /\ metrics' = [metrics EXCEPT !.sent = @ + 1]
    /\ UNCHANGED <<cfg, h_req, now, limiter, l_isRunning, l_cancelled, l_stopping, ready,
                   mail, schedVars>>

\* ------------------------------------------------ Scheduler (scheduler.go)

TaskIds == {"t1", "t2"}

\* What callers pass to Schedule beside the id.
ScheduleInputs ==
    { [Template |-> "welcome", Recipients |-> <<"a@x">>, Data |-> "Alice",
       SendAt |-> [sec |-> 0, loc |-> "Local"]],
      [Template |-> "plain", Recipients |-> <<"b@x">>, Data |-> "Bob",
       SendAt |-> [sec |-> Step, loc |-> "UTC"]],
      [Template |-> "missing", Recipients |-> <<"a@x">>, Data |-> "Alice",
       SendAt |-> [sec |-> 0, loc |-> "UTC"]] }

DueInputs == {in \in ScheduleInputs : in.SendAt.sec = 0 /\ ~RenderErr(in.Template)}

NewTask(id, in, uid) ==
    [ID |-> id, Template |-> in.Template, Recipients |-> in.Recipients,
     Data |-> in.Data, SendAt |-> UTC(in.SendAt), uid |-> uid]

\* part_002:79-93: what Schedule leaves in the table.
ScheduleOverwrite(tbl, id, in, uid) ==
    [k \in DOMAIN tbl \cup {id} |-> IF k = id THEN NewTask(id, in, uid) ELSE tbl[k]]

ScheduleTable(tbl, id, in, uid) ==
    IF id \in DOMAIN tbl THEN tbl
    ELSE [k \in DOMAIN tbl \cup {id} |-> IF k = id THEN NewTask(id, in, uid) ELSE tbl[k]]

\* part_002:75-96: Schedule; an id in the table is an error.
ScheduleCall(id, in) ==
    /\ mu.s = Free
    /\ mu' = Locked(mu, "s", Main)
    /\ hist.nextUid <= MaxTasks
    /\ tasks' = ScheduleTable(tasks, id, in, hist.nextUid)
    /\ ret' = [id |-> id, in |-> in, err |-> id \in DOMAIN tasks]
    /\ hist' = IF id \in DOMAIN tasks THEN hist
               ELSE [hist EXCEPT !.nextUid = @ + 1,
                                 !.dispatched = Append(@, 0),
                                 !.removed = Append(@, 0)]

\* Schedule called by some goroutine of the program.
Schedule(id, in) ==
    /\ ScheduleCall(id, in)
    /\ UNCHANGED <<cfg, h_req, now, limiter, pc, res, mail, s_isRunning, s_cancelled,
                   s_stopping, scan, drainVars, httpVars>>

\* part_002:49-60: no-op when running; else isRunning = true and go processTasks().
S_Start ==
    /\ mu.s = Free
    /\ mu' = Locked(mu, "s", Main)
    /\ IF s_isRunning
       THEN UNCHANGED <<s_isRunning, pc>>
       ELSE /\ \E w \in SWorkers : pc[w] = "none"
            /\ s_isRunning' = TRUE
            /\ pc' = [pc EXCEPT ![FreeSlot(SWorkers)] = "select"]
    /\ UNCHANGED <<cfg, h_req, now, limiter, tasks, s_cancelled, s_stopping, scan, ret,
                   res, mail, hist, drainVars, httpVars>>

\* part_002:62-69: no-op when not running; else isRunning = false, Unlock.
S_Stop ==
    /\ mu.s = Free
    /\ mu' = Locked(mu, "s", Main)
    /\ IF ~s_isRunning
       THEN UNCHANGED <<s_isRunning, s_stopping>>
       ELSE /\ s_isRunning' = FALSE
            /\ s_stopping' = TRUE
    /\ UNCHANGED <<cfg, h_req, now, limiter, tasks, s_cancelled, scan, ret,
                   pc, res, mail, hist, drainVars, httpVars>>

\* part_002:71: s.cancel().
S_StopCancel ==
    /\ s_stopping
    /\ s_stopping' = FALSE
    /\ s_cancelled' = TRUE
    /\ UNCHANGED <<cfg, mu, h_req, now, limiter, tasks, s_isRunning, scan, ret,
                   pc, res, mail, hist, drainVars, httpVars>>

\* part_002:116: now.After(task.SendAt) || now.Equal(task.SendAt).
DueStrictlyAfter(task, t) == t > task.SendAt.sec

Due(task, t) == t > task.SendAt.sec \/ t = task.SendAt.sec

Uids(tbl) == {tbl[k].uid : k \in DOMAIN tbl}

RECURSIVE DeleteAll(_, _)
DeleteAll(tbl, ids) ==
    IF ids = <<>> THEN tbl
    ELSE DeleteAll([k \in DOMAIN tbl \ {Head(ids)} |-> tbl[k]], Tail(ids))

Bump(f, uids) == [u \in DOMAIN f |-> IF u \in uids THEN f[u] + 1 ELSE f[u]]

\* part_002:115-126, s.mu locked by the caller: the range loop goes on over the table.  Either
\* it produces a due entry it has not produced yet, unlocks and hands it to
\* processTask, or it ends (every entry it began with has been produced; an entry
\* added meanwhile may be skipped), deletes toDelete and unlocks.
Range(w, sc) ==
    \/ /\ \E id \in DOMAIN tasks :
            /\ tasks[id].uid \notin sc.visited
            /\ Due(tasks[id], sc.now)
            /\ scan' = [scan EXCEPT ![w] = [sc EXCEPT !.visited = @ \cup {tasks[id].uid},
                                                      !.task = tasks[id]]]
            /\ hist' = [hist EXCEPT !.dispatched = Bump(@, {tasks[id].uid})]
       /\ pc' = [pc EXCEPT ![w] = "render"]
       /\ mu' = UnlockForDispatch(Lock(mu, "s", w))
       /\ UNCHANGED tasks
    \/ /\ \A id \in DOMAIN tasks :
            tasks[id].uid \in sc.start \ sc.visited => ~Due(tasks[id], sc.now)
       /\ tasks' = DeleteAll(tasks, sc.toDelete)
       /\ hist' = [hist EXCEPT !.removed = Bump(@, Uids(tasks) \ Uids(tasks'))]
       /\ scan' = [scan EXCEPT ![w] = NoScan]
       /\ pc' = [pc EXCEPT ![w] = "select"]
       /\ mu' = Unlock(Lock(mu, "s", w), "s")

\* part_002:104-105: <-s.ctx.Done(), the worker returns.
SW_Exit(w) ==
    /\ pc[w] = "select"
    /\ s_cancelled
    /\ pc' = [pc EXCEPT ![w] = "none"]
    /\ UNCHANGED <<cfg, mu, h_req, now, limiter, res, mail, hist, schedVars, drainVars, httpVars>>

\* part_002:108: if !s.isRunning.
NotRunningNever(running) == FALSE

NotRunning(running) == ~running

\* part_002:106-113: a tick; return when not running, else now and the range loop.
SW_Tick(w) ==
    /\ pc[w] = "select"
    /\ mu.s = Free
    /\ IF NotRunning(s_isRunning)
       THEN /\ pc' = [pc EXCEPT ![w] = "none"]
            /\ mu' = Locked(mu, "s", w)
            /\ UNCHANGED <<tasks, scan, hist>>
       ELSE Range(w, [now |-> now, start |-> Uids(tasks), visited |-> {},
                      toDelete |-> <<>>, task |-> NoTask])
    /\ UNCHANGED <<cfg, h_req, now, limiter, s_isRunning, s_cancelled, s_stopping, ret,
                   res, mail, drainVars, httpVars>>

\* part_002:118-119: processTask has returned, with an error logged or not, and
\* processTasks goes on.
StopOnError(err) == IF err THEN "none" ELSE "resume"

AfterProcessTask(err) == "resume"

\* part_002:131-142: processTask renders; an error ends it.
SW_Render(w) ==
    /\ pc[w] = "render"
    /\ IF RenderErr(scan[w].task.Template)
       THEN /\ pc' = [pc EXCEPT ![w] = AfterProcessTask(TRUE)]
            /\ UNCHANGED mail
       ELSE /\ pc' = [pc EXCEPT ![w] = "cansend"]
            /\ mail' = [mail EXCEPT ![w] =
                    [Recipients |-> scan[w].task.Recipients,
                     Subject |-> DefaultSubject("Scheduled email from RuneBird",
                                     RenderSubject(scan[w].task.Template),
                                     scan[w].task.Template),
                     Body |-> RenderBody(scan[w].task.Template)]]
    /\ UNCHANGED <<cfg, mu, h_req, now, limiter, res, hist, schedVars, drainVars, httpVars>>

\* part_002:144-148: CanSend said yes: Sender.Send, whose error is only logged.
SW_Send(w, ok) ==
    /\ pc[w] = "granted"
    /\ hist' = Sent(hist, mail[w])
    /\ pc' = [pc EXCEPT ![w] = AfterProcessTask(~ok)]
    /\ UNCHANGED <<cfg, mu, h_req, now, limiter, res, mail, schedVars, drainVars, httpVars>>

\* part_002:149-152: CanSend said no: QueueEmail.
SW_Queue(w) ==
    /\ mu.l = Free
    /\ mu' = Locked(mu, "l", w)
    /\ pc[w] = "denied"
    /\ pc' = [pc EXCEPT ![w] = AfterProcessTask(FALSE)]
    /\ res' = [res EXCEPT ![w] = NoRes]
    /\ queue' = QueueEmail(queue, mail[w], now, hist.nextQid)
    /\ hist' = [hist EXCEPT !.nextQid = @ + 1]
    /\ UNCHANGED <<cfg, h_req, now, limiter, l_isRunning, l_cancelled, l_stopping, ready,
                   mail, schedVars, httpVars>>

\* part_002:119-120: processTask returned: Lock, toDelete grows, the loop goes on.
SW_Resume(w) ==
    /\ pc[w] = "resume"
    /\ mu.s = Free
    /\ Range(w, [scan[w] EXCEPT !.toDelete = Append(@, scan[w].task.ID),
                                !.task = NoTask])
    /\ mail' = [mail EXCEPT ![w] = NoMail]
    /\ UNCHANGED <<cfg, h_req, now, limiter, s_isRunning, s_cancelled, s_stopping, ret,
                   res, drainVars, httpVars>>

\* ------------------------------------------ Server.handleSchedule (server.go)

\* time.Time{}: an instant before every time the clock reaches.
ZeroSec == -((MaxTicks + 2) * Step)

IsZero(t) == t.sec = ZeroSec

\* The send_at of a request: missing, or an instant around the clock's range.
SendAtChoices == {ZeroSec} \cup {k * Step : k \in (-1)..(MaxSchedTicks + 1)}

\* The /schedule requests a client may post.
ScheduleRequests ==
    [Path : {"/schedule"}, Method : {"POST", "GET"}, Decodes : BOOLEAN,
     Template : {"", "welcome"}, Recipients : {<<>>, <<"a@x">>},
     SendAt : [sec : SendAtChoices, loc : {"UTC"}]]

\* server.go:173-200: the status of a request that is turned away, 0 for one that
\* goes on to Schedule.  SendAt is refused when zero or Before(now).
ScheduleStatus(rq, t) ==
    IF rq.Method # "POST" THEN 405
    ELSE IF ~rq.Decodes THEN 400
    ELSE IF rq.Template = "" THEN 400
    ELSE IF Len(rq.Recipients) = 0 THEN 400
    ELSE IF IsZero(rq.SendAt) THEN 400
    ELSE IF rq.SendAt.sec < t THEN 400
    ELSE 0

\* server.go:202: id := fmt.Sprintf("sched-%d", time.Now().UnixNano()).
SchedId(t) == "sched-" \o ToString(t)

\* server.go:204: the arguments handed to Schedule.
ScheduleArgs(rq) ==
    [Template |-> rq.Template, Recipients |-> rq.Recipients, Data |-> "Alice",
     SendAt |-> rq.SendAt]

\* server.go:172-200: a request that fails validation is answered and nothing else.
HSch_Reject(h, rq) ==
    /\ pc[h] = "none"
    /\ ScheduleStatus(rq, now) # 0
    /\ pc' = [pc EXCEPT ![h] = "done"]
    /\ resp' = [resp EXCEPT ![h] = ScheduleStatus(rq, now)]
    /\ h_req' = [h_req EXCEPT ![h] = rq]
    /\ UNCHANGED <<cfg, mu, now, limiter, res, mail, metrics, hist, schedVars, drainVars>>

\* server.go:202-214: the id from the clock, Schedule; its error is a 500, else
\* the scheduled counter and 200 with the task_id.
HSch_Schedule(h, rq) ==
    /\ pc[h] = "none"
    /\ ScheduleStatus(rq, now) = 0
    /\ ScheduleCall(SchedId(now), ScheduleArgs(rq))
    /\ pc' = [pc EXCEPT ![h] = "done"]
    /\ h_req' = [h_req EXCEPT ![h] = rq]
    /\ IF SchedId(now) \in DOMAIN tasks
       THEN /\ resp' = [resp EXCEPT ![h] = 500]
            /\ UNCHANGED metrics
       ELSE /\ resp' = [resp EXCEPT ![h] = 200]
            /\ metrics' = [metrics EXCEPT !.scheduled = @ + 1]
    /\ UNCHANGED <<cfg, now, limiter, res, mail, s_isRunning, s_cancelled,
                   s_stopping, scan, drainVars>>

\* ------------------------------------------------------- rate.New (rate.go)

\* The configurations handed to New, valid and not.
ConfigChoices == [PerHour : PerHourChoices \cup {0, -1}, Burst : (-1)..MaxBurst]

\* No limiter: New has not returned one.
NilLimiter == [tokens |-> 0, last |-> -1, lastEvent |-> -1]

\* rate.go:37: cfg.PerHour <= 0 || cfg.Burst <= 0.
InvalidConfigBoth(c) == c.PerHour <= 0 /\ c.Burst <= 0

InvalidConfig(c) == c.PerHour <= 0 \/ c.Burst <= 0

\* main is about to call rate.New with some configuration.
InitNew ==
    /\ cfg \in ConfigChoices
    /\ limiter = NilLimiter
    /\ pc = [p \in Procs |-> IF p = Main THEN "new" ELSE "none"]
    /\ InitRest

\* rate.go:36-55: New returns (nil, error) for an invalid configuration (main then
\* exits), else a limiter with a full bucket, an empty queue, not running.
New ==
    /\ pc[Main] = "new"
    /\ IF InvalidConfig(cfg)
       THEN /\ pc' = [pc EXCEPT ![Main] = "fatal"]
            /\ UNCHANGED <<limiter, queue, l_isRunning, l_cancelled>>
       ELSE /\ pc' = [pc EXCEPT ![Main] = "ready"]
            /\ limiter' = NewLimiter(cfg)
            /\ queue' = <<>>
            /\ l_isRunning' = FALSE
            /\ l_cancelled' = FALSE
    /\ UNCHANGED <<cfg, mu, h_req, now, l_stopping, ready, res, mail, hist,
                   schedVars, httpVars>>

\* A goroutine calls CanSend on the limiter New returned.
CS_Call(c) ==
    /\ pc[Main] \notin {"new", "fatal"}
    /\ pc[c] = "none"
    /\ hist.calls < MaxCalls
    /\ pc' = [pc EXCEPT ![c] = "cansend"]
    /\ hist' = [hist EXCEPT !.calls = @ + 1]
    /\ UNCHANGED <<cfg, mu, h_req, now, limiter, res, mail,
                   schedVars, drainVars, httpVars>>

\* CanSend has returned, true or false, and the caller does nothing with it.
CS_Return(c) ==
    /\ pc[c] \in {"granted", "denied"}
    /\ pc' = [pc EXCEPT ![c] = "none"]
    /\ res' = [res EXCEPT ![c] = NoRes]
    /\ UNCHANGED <<cfg, mu, h_req, now, limiter, mail, hist,
                   schedVars, drainVars, httpVars>>

\* ------------------------------------------------------------ specifications

ValidRequests == {req \in Requests : ValidationStatus(req) = 0 /\ ~RenderErr(req.Template)}

WelcomeRequests == {req \in ValidRequests : req.Template = "welcome"}

CanSendStep == \E p \in Procs : CanSendReserve(p) \/ CanSendDelay(p) \/ CanSendCancel(p)

WaitNStep == \E p \in Procs : WaitNReserve(p) \/ WaitNWake(p) \/ WaitNCancel(p)

DrainStep ==
    \E w \in LWorkers : LW_Exit(w) \/ LW_Tick(w) \/ LW_Next(w) \/ LW_Process(w) \/ LW_Requeue(w)

SendStep ==
    \E h \in Senders :
        \/ \E req \in WelcomeRequests : HS_Render(h, req)
        \/ \E ok \in BOOLEAN : HS_Send(h, ok)
        \/ HS_Finish(h)
        \/ HS_Queue(h)

\* The limiter with its drain loop and the /send requests.
NextRate ==
    \/ Tick
    \/ CanSendStep
    \/ WaitNStep
    \/ L_Start
    \/ L_Stop
    \/ L_StopCancel
    \/ DrainStep
    \/ SendStep

SpecRate == Init /\ [][NextRate]_vars

\* A poll worker's steps inside its loop.
PollRunStep ==
    \E w \in SWorkers :
        \/ SW_Tick(w)
        \/ SW_Render(w)
        \/ \E ok \in BOOLEAN : SW_Send(w, ok)
        \/ SW_Queue(w)
        \/ SW_Resume(w)

PollStep == PollRunStep \/ \E w \in SWorkers : SW_Exit(w)

ScheduleStep == \E id \in TaskIds, in \in ScheduleInputs : Schedule(id, in)

\* The scheduler with its poll loop, dispatching through the limiter.
NextSched ==
    \/ ShortTick
    \/ CanSendStep
    \/ ScheduleStep
    \/ S_Start
    \/ S_Stop
    \/ S_StopCancel
    \/ PollStep

\* One limiter configuration for the scheduler's runs: a burst of one, a token a step.
InitSched == Init /\ cfg.Burst = 1 /\ cfg.PerHour = SecondsPerHour \div Step

SpecSched == InitSched /\ [][NextSched]_vars

\* The pending table alone: Schedule against one poll loop that is never stopped.
NextTable ==
    \/ ScheduleStep
    \/ S_Start
    \/ PollRunStep
    \/ CanSendStep

SpecTable == InitSched /\ [][NextTable]_vars

\* A running poll loop over time, with Schedule calls arriving.
NextPoll ==
    \/ ShortTick
    \/ ScheduleStep
    \/ S_Start
    \/ PollRunStep
    \/ CanSendStep

SpecPoll == InitSched /\ [][NextPoll]_vars

\* The scheduler started and stopped at one instant of the clock.
NextStop ==
    \/ ScheduleStep
    \/ S_Start
    \/ S_Stop
    \/ S_StopCancel
    \/ PollStep
    \/ CanSendStep

SpecStop == InitSched /\ [][NextStop]_vars

\* /send requests with at most one thing wrong with them.
Defects(r) ==
    (IF r.Method # "POST" THEN 1 ELSE 0) + (IF ~r.Decodes THEN 1 ELSE 0)
        + (IF r.Template = "" THEN 1 ELSE 0) + (IF Len(r.Recipients) = 0 THEN 1 ELSE 0)

SendProbes == {r \in Requests : Defects(r) <= 1}

ScheduleProbes == {rq \in ScheduleRequests : Defects(rq) <= 1}

\* The HTTP handlers: /send and /schedule requests of every kind.
NextApi ==
    \/ ShortTick
    \/ \E h \in Senders, rq \in ScheduleProbes : HSch_Reject(h, rq) \/ HSch_Schedule(h, rq)
    \/ \E h \in Senders, req \in SendProbes : HS_Reject(h, req) \/ HS_Render(h, req)
    \/ \E h \in Senders :
          \/ \E ok \in BOOLEAN : HS_Send(h, ok)
          \/ HS_Finish(h)
          \/ HS_Queue(h)
    \/ \E h \in Senders : CanSendReserve(h) \/ CanSendDelay(h) \/ CanSendCancel(h)
    \/ \E h \in Senders : WaitNReserve(h) \/ WaitNWake(h)

SpecApi == InitSched /\ [][NextApi]_vars

\* The clock over the drain loop's longer horizon.
DrainTick == TickWithin(MaxDrainTicks)

\* A slow limiter: a burst of one and one token over the whole horizon.
InitDrain ==
    /\ cfg = [PerHour |-> SecondsPerHour \div (MaxDrainTicks * Step), Burst |-> 1]
    /\ limiter = NewLimiter(cfg)
    /\ pc = [p \in Procs |-> "none"]
    /\ InitRest

\* The drain loop, never stopped, against a bucket that /send requests have emptied.
NextDrain ==
    \/ DrainTick
    \/ L_Start
    \/ \E w \in LWorkers : LW_Tick(w) \/ LW_Next(w) \/ LW_Process(w) \/ LW_Requeue(w)
    \/ SendStep
    \/ \E p \in Senders \cup LWorkers : CanSendReserve(p) \/ CanSendDelay(p) \/ CanSendCancel(p)
    \/ \E p \in Senders \cup LWorkers : WaitNReserve(p) \/ WaitNWake(p)

SpecDrain == InitDrain /\ [][NextDrain]_vars

\* rate.New and the limiter it returns, used through CanSend alone.
NextNew ==
    \/ New
    \/ Tick
    \/ \E c \in Callers : CS_Call(c) \/ CS_Return(c)
    \/ \E c \in Callers : CanSendReserve(c) \/ CanSendDelay(c) \/ CanSendCancel(c)

SpecNew == InitNew /\ [][NextNew]_vars

\* Both sending paths on the one limiter, with an observation window.
NextQuota ==
    \/ QuotaTick
    \/ MarkWindow
    \/ CanSendStep
    \/ \E p \in Procs : WaitNReserve(p) \/ WaitNWake(p)
    \/ SendStep
    \/ \E in \in DueInputs : Schedule("t1", in)
    \/ S_Start
    \/ PollRunStep

\* Every burst, at a token a step.
InitQuota == Init /\ cfg.PerHour = SecondsPerHour \div Step

SpecQuota == InitQuota /\ [][NextQuota]_vars

\* ------------------------------------------------------------------ claims

InTick(w) == pc[w] \notin {"none", "select"}

\* C1: while the clock stands still at most Burst calls of CanSend return true,
\* whoever the callers are and however they interleave.
C1_BurstLimit == hist.grantsNow <= cfg.Burst

\* C1 witness: no time has passed since New, the largest burst was granted in full
\* and a further call was refused.
C1_Witness ==
    /\ now = 0
    /\ hist.grantsNow = cfg.Burst
    /\ cfg.Burst = MaxBurst
    /\ \E p \in Procs : pc[p] = "denied"

\* C2 (as claimed): over any window the Send invocations of all paths number at
\* most Burst + T * PerHour / 3600.
C2_AnyWindow ==
    hist.winStart >= 0 =>
        hist.winSends * SecondsPerHour
            <= BurstUnits + tokensFromDuration(now - hist.winStart)

\* C2 (amended): every Send invocation has its own CanSend grant before it, and
\* the grants (so the Send invocations) up to any time T after New number at most
\* Burst + T * PerHour / 3600.
C2_GlobalQuota ==
    /\ hist.sends + Cardinality({p \in Senders \cup SWorkers : pc[p] = "granted"})
           <= hist.grants
    /\ hist.grants * SecondsPerHour <= BurstUnits + tokensFromDuration(now)

\* C2 witness: the bucket has refilled, both paths have sent and the bound is met.
C2_Witness ==
    /\ now > 0
    /\ hist.sends * SecondsPerHour = BurstUnits + tokensFromDuration(now)
    /\ queue = <<>>
    /\ \E h \in Senders : pc[h] \in {"waitn", "sleep", "finish"}
    /\ \E w \in SWorkers : pc[w] = "resume" /\ mail[w] # NoMail

\* C3 (as claimed): an accepted task is handed to processTask at most once and is
\* deleted from the table at most once.
C3_DispatchedOnce ==
    \A u \in DOMAIN hist.dispatched : hist.dispatched[u] <= 1 /\ hist.removed[u] <= 1

\* C4 (as claimed): every retry item for which the drain loop was granted a token
\* has been handed to Sender.Send.
C4_DrainedAreSent == hist.drained \subseteq hist.sent

\* C5 (as claimed): a CanSend that returned false, no other goroutine having used
\* the limiter meanwhile, leaves the balance at what it was before plus accrual.
C5_FailedCheckNoDebit ==
    \A p \in Procs :
        pc[p] = "denied" /\ res[p].alone => advance(limiter, now) = advance(res[p].pre, now)

\* C6 (as claimed): the stored token count is always within [0, Burst].
C6_TokensInRange == 0 <= limiter.tokens /\ limiter.tokens <= BurstUnits

\* C7: Schedule with an id in the table returns an error and leaves the table as it
\* is; with a new id it returns nil and adds that one task with the caller's
\* fields; a pending entry never changes.
C7_ScheduleDuplicate ==
    [][ /\ \A id \in DOMAIN tasks \cap DOMAIN tasks' : tasks'[id] = tasks[id]
        /\ ret' # ret =>
              IF ret'.id \in DOMAIN tasks
              THEN ret'.err /\ tasks' = tasks
              ELSE /\ ~ret'.err
                   /\ DOMAIN tasks' = DOMAIN tasks \cup {ret'.id}
                   /\ tasks'[ret'.id].Template = ret'.in.Template
                   /\ tasks'[ret'.id].Recipients = ret'.in.Recipients
                   /\ tasks'[ret'.id].Data = ret'.in.Data
                   /\ tasks'[ret'.id].SendAt.sec = ret'.in.SendAt.sec ]_vars

\* C7 witness: a second Schedule under a pending id, with other arguments, was
\* refused and the first task is still there as it was given.
C7_Witness ==
    /\ ret.err
    /\ ret.id \in DOMAIN tasks
    /\ tasks[ret.id].Template # ret.in.Template
    /\ tasks[ret.id].Data # ret.in.Data

\* C8 (as claimed): a scheduler that is running (started, or started again after a
\* Stop) has a poll loop.
C8_RestartPolls ==
    s_isRunning /\ ~s_stopping => \E w \in SWorkers : pc[w] # "none"

\* C9 (as claimed): at most one loop worker of the limiter, and one of the
\* scheduler, is inside a tick at any time.
C9_SingleWorker ==
    /\ Cardinality({w \in LWorkers : InTick(w)}) <= 1
    /\ Cardinality({w \in SWorkers : InTick(w)}) <= 1

\* C10: no retry-queue entry is returned by two GetQueuedEmails calls, and an entry
\* not yet returned is still in the queue, exactly once.
C10_QueueAtomic ==
    /\ ~hist.twice
    /\ \A q \in 1..(hist.nextQid - 1) :
          Cardinality({i \in 1..Len(queue) : queue[i].qid = q})
              = IF q \in hist.returned THEN 0 ELSE 1

\* C10 witness: GetQueuedEmails has returned an entry to the drain loop, which has
\* queued it again while it is still inside its tick.
C10_Witness ==
    /\ hist.returned # {}
    /\ queue # <<>>
    /\ \E w \in LWorkers : pc[w] = "next"

\* The entries of a sequence.
Elems(q) == {q[i] : i \in 1..Len(q)}

\* A drain worker's step from its select into a tick is its GetQueuedEmails call.
Drains(w) == pc[w] = "select" /\ pc'[w] = "next"

\* C11 (as claimed): GetQueuedEmails at time now returns exactly the entries whose
\* RetryAt <= now, in order, and keeps exactly those whose RetryAt > now.
C11_ReturnsAtOrBefore ==
    [][ \A w \in LWorkers :
            Drains(w) =>
                /\ ready'[w] = SelectSeq(queue, LAMBDA task : task.RetryAt <= now)
                /\ queue' = SelectSeq(queue, LAMBDA task : task.RetryAt > now) ]_vars

\* C12: QueueEmail appends one entry, the caller's email with RetryAt = now + 10 s,
\* and leaves the entries before it as they are; a GetQueuedEmails call made
\* before an entry's RetryAt keeps the entry and does not return it.
C12_QueueEmailDelay ==
    [][ /\ hist'.nextQid # hist.nextQid =>
              \E p \in Procs :
                  /\ pc[p] = "denied"
                  /\ queue' = Append(queue,
                         [Recipients |-> mail[p].Recipients, Subject |-> mail[p].Subject,
                          Body |-> mail[p].Body, RetryAt |-> now + RetryDelay,
                          qid |-> hist.nextQid])
        /\ \A w \in LWorkers :
              Drains(w) =>
                  \A task \in Elems(queue) :
                      now < task.RetryAt =>
                          task \in Elems(queue') /\ task \notin Elems(ready'[w]) ]_vars

\* C12 witness: an entry that a GetQueuedEmails call has kept is in the queue, its
\* ten seconds not yet over.
C12_Witness ==
    \E task \in Elems(queue) : task.qid \in hist.kept /\ now < task.RetryAt

\* C13 (as claimed): a ConsumeToken call that Stop interrupts before its delay has
\* run out gives its token back: the balance is one token above what it was with
\* the reservation in place (capped at Burst).
C13_CancelRestores ==
    [][ \A p \in Procs :
            pc[p] = "sleep" /\ pc'[p] # "sleep" /\ now < res[p].timeToAct =>
                advance(limiter', now)
                    = IF advance(limiter, now) + SecondsPerHour > BurstUnits
                      THEN BurstUnits ELSE advance(limiter, now) + SecondsPerHour ]_vars

\* No CanSend or WaitN call holds a reservation it has yet to settle.
Quiescent == \A p \in Procs : pc[p] \notin {"delay", "cancel", "sleep"}

\* C14 (as claimed): the bucket emptied by Burst grants at one instant, and nothing
\* granted since, a CanSend call would return true exactly when 3600/PerHour
\* seconds have passed since that instant.
C14_RefillOnTime ==
    hist.emptiedAt >= 0 /\ Quiescent =>
        (advance(limiter, now) >= SecondsPerHour
            <=> (now - hist.emptiedAt) * cfg.PerHour >= SecondsPerHour)

\* C17: New fails, and returns no limiter, exactly when PerHour <= 0 or Burst <= 0;
\* the limiter it returns is not running, its queue is empty, and with no time
\* passed it grants at most Burst calls and refuses only once Burst are granted.
C17_NewValidates ==
    /\ pc[Main] = "fatal" <=> pc[Main] # "new" /\ (cfg.PerHour <= 0 \/ cfg.Burst <= 0)
    /\ pc[Main] = "fatal" => limiter = NilLimiter
    /\ pc[Main] = "ready" =>
          /\ ~l_isRunning
          /\ queue = <<>>
          /\ hist.grants = 0 /\ Quiescent => limiter.tokens = cfg.Burst * SecondsPerHour
          /\ now = 0 =>
                /\ hist.grantsNow <= cfg.Burst
                /\ \A c \in Callers : pc[c] = "denied" => hist.grantsNow = cfg.Burst

\* C17 witness: the limiter New returned has granted its whole burst at once and
\* refused the call after.
C17_Witness ==
    /\ pc[Main] = "ready"
    /\ now = 0
    /\ cfg.Burst = MaxBurst
    /\ hist.grantsNow = cfg.Burst
    /\ \E c \in Callers : pc[c] = "denied"

\* A poll worker's step that ends a tick in which it dispatched something.
TickEnds(w) == pc[w] = "resume" /\ pc'[w] = "select"

\* C15: when a tick completes, no task that was in the table when the tick began
\* and whose SendAt was at or before the tick's time is in the table.
C15_PastTasksRemoved ==
    [][ \A w \in SWorkers :
            TickEnds(w) =>
                \A id \in DOMAIN tasks' :
                    ~(tasks'[id].uid \in scan[w].start
                        /\ tasks'[id].SendAt.sec <= scan[w].now) ]_vars

\* C15 witness: the task accepted last had its SendAt in the past and a tick of the
\* running loop has removed it.
C15_Witness ==
    /\ s_isRunning
    /\ ~ret.err /\ ret.id # "" /\ ret.id \notin DOMAIN tasks
    /\ ret.in.SendAt.sec < now
    /\ hist.removed[hist.nextUid - 1] = 1
    /\ \E w \in SWorkers : pc[w] = "select"

\* C16: while a goroutine is about to render or is handing an email to the
\* transport, neither Scheduler.mu nor Limiter.mu is held.
C16_NoLockAcrossCalls ==
    (\E p \in Procs : pc[p] \in {"render", "granted"}) => mu.s = Free /\ mu.l = Free

\* C16 witness: with a dispatch about to call Send, a Schedule call has added a
\* task that was not in the table when the tick began.
C16_Witness ==
    \E w \in SWorkers :
        /\ pc[w] = "granted"
        /\ ~ret.err /\ ret.id \in DOMAIN tasks
        /\ tasks[ret.id].uid \notin scan[w].start

\* C18: a poll worker never leaves the loop from inside a tick, and when a tick
\* completes every task it began with that was due has been handed to
\* processTask, the worker is back at its select and the mutex is free.
C18_LoopSurvivesFailure ==
    [][ \A w \in SWorkers :
            /\ InTick(w) => pc'[w] # "none"
            /\ TickEnds(w) =>
                  /\ mu' = NoLock
                  /\ \A id \in DOMAIN tasks :
                        tasks[id].uid \in scan[w].start
                            /\ tasks[id].SendAt.sec <= scan[w].now
                        => hist'.dispatched[tasks[id].uid] >= 1 ]_vars

\* C18 witness: in one tick the task with the unknown template was dispatched
\* (its render failed) and the loop has gone on to dispatch another.
C18_Witness ==
    \E w \in SWorkers, id \in DOMAIN tasks :
        /\ pc[w] = "render"
        /\ tasks[id].Template = "missing"
        /\ tasks[id].uid \in scan[w].visited
        /\ tasks[id].uid # scan[w].task.uid

\* A handler goroutine's step that takes up a request of the given path.
Serves(h, path) == pc[h] = "none" /\ pc'[h] # "none" /\ h_req'[h].Path = path

\* A request with nothing wrong in its method, body, template name and recipients.
WellFormed(rq) ==
    rq.Method = "POST" /\ rq.Decodes /\ rq.Template # "" /\ Len(rq.Recipients) > 0

\* C19 (as claimed): a /schedule request with SendAt zero or before now gets 400
\* and adds no task; one with SendAt after now gets 200 and adds exactly one task,
\* under the task_id returned, with the request's fields.
C19_ScheduleEndpoint ==
    [][ \A h \in Senders :
            Serves(h, "/schedule") /\ WellFormed(h_req'[h]) =>
                IF IsZero(h_req'[h].SendAt) \/ h_req'[h].SendAt.sec < now
                THEN resp'[h] = 400 /\ tasks' = tasks
                ELSE h_req'[h].SendAt.sec > now =>
                        /\ resp'[h] = 200
                        /\ ret'.id \notin DOMAIN tasks
                        /\ DOMAIN tasks' = DOMAIN tasks \cup {ret'.id}
                        /\ \A id \in DOMAIN tasks : tasks'[id] = tasks[id]
                        /\ tasks'[ret'.id].Template = h_req'[h].Template
                        /\ tasks'[ret'.id].Recipients = h_req'[h].Recipients
                        /\ tasks'[ret'.id].SendAt.sec = h_req'[h].SendAt.sec ]_vars

\* C20: a /send request whose template is unknown is answered 500 in one step that
\* leaves the limiter, the emails sent and the retry queue as they were and adds
\* one to the failed counter alone; the handler does nothing after it.
C20_RenderFailure ==
    [][ \A h \in Senders :
            /\ Serves(h, "/send") /\ WellFormed(h_req'[h])
                    /\ h_req'[h].Template = "missing" =>
                  /\ pc'[h] = "done"
                  /\ resp'[h] = 500
                  /\ limiter' = limiter
                  /\ hist'.sends = hist.sends /\ hist'.sent = hist.sent
                  /\ queue' = queue
                  /\ metrics' = [metrics EXCEPT !.failed = @ + 1]
            /\ pc[h] = "done" => pc'[h] = "done" /\ resp'[h] = resp[h] ]_vars

\* C20 witness: a request for the unknown template has got its 500, after another
\* request's email was sent.
C20_Witness ==
    \E h \in Senders :
        /\ pc[h] = "done"
        /\ resp[h] = 500
        /\ h_req[h].Path = "/send" /\ h_req[h].Template = "missing"
        /\ metrics.failed = 1
        /\ hist.sends = 1

\* C21: a /send or /schedule request that is not a POST is answered 405, and a POST
\* whose body does not decode, or names no template or no recipient, is answered
\* 400; the step that answers it ends the handler and leaves the limiter, the
\* retry queue, the pending table, the counters and the emails sent as they were.
C21_ValidationFirst ==
    [][ \A h \in Senders :
            pc[h] = "none" /\ pc'[h] # "none" /\ ~WellFormed(h_req'[h]) =>
                /\ pc'[h] = "done"
                /\ resp'[h] = IF h_req'[h].Method # "POST" THEN 405 ELSE 400
                /\ limiter' = limiter
                /\ queue' = queue
                /\ tasks' = tasks
                /\ metrics' = metrics
                /\ hist' = hist ]_vars

\* C21 witness: a /schedule request has been turned away with 405 or 400 and the
\* pending table is empty, next to a /send request that took a token and got 200.
C21_Witness ==
    \E h1, h2 \in Senders :
        /\ h_req[h1].Path = "/send" /\ resp[h1] = 200
        /\ limiter.tokens < BurstUnits
        /\ h_req[h2].Path = "/schedule" /\ ~WellFormed(h_req[h2])
        /\ resp[h2] \in {400, 405}
        /\ tasks = <<>>

\* C22 (as claimed): the sent counter grows only in the step of a handler whose
\* email was handed to Send without an error, by one; never for a request whose
\* email was put on the retry queue.
C22_SentCountsSends ==
    [][ metrics'.sent # metrics.sent =>
            /\ metrics'.sent = metrics.sent + 1
            /\ queue' = queue
            /\ \E h \in Senders :
                  pc[h] = "finish" /\ pc'[h] = "done" /\ mail[h] \in hist.sent ]_vars

\* A poll worker's step that hands a task to processTask.
Dispatches(w) == pc[w] \in {"select", "resume"} /\ pc'[w] = "render"

\* C23: every pending task's SendAt is in UTC; a Schedule call that succeeds stores
\* the caller's instant, in UTC, whatever location it came in; and the poll loop
\* hands over a task only when that instant is at or before the tick's time.
C23_SendAtUTC ==
    [][ /\ \A id \in DOMAIN tasks' : tasks'[id].SendAt.loc = "UTC"
        /\ ret' # ret /\ ~ret'.err =>
              tasks'[ret'.id].SendAt = [sec |-> ret'.in.SendAt.sec, loc |-> "UTC"]
        /\ \A w \in SWorkers :
              Dispatches(w) =>
                  /\ scan'[w].task.SendAt.loc = "UTC"
                  /\ scan'[w].task.SendAt.sec <= scan'[w].now ]_vars

\* C23 witness: the task given last came with a SendAt in another location and
\* the poll loop is handing it to processTask.
C23_Witness ==
    \E w \in SWorkers :
        /\ pc[w] = "render"
        /\ ~ret.err /\ ret.in.SendAt.loc = "Local"
        /\ scan[w].task.ID = ret.id
        /\ scan[w].task.uid = hist.nextUid - 1
        /\ scan[w].task.SendAt = [sec |-> ret.in.SendAt.sec, loc |-> "UTC"]

\* Every CanSend call made so far has returned.
AllReturned == \A p \in Procs : pc[p] \notin {"cansend", "delay", "cancel"}

\* C24 (as claimed): with no time passed since New (no accrual), once every
\* CanSend call has returned the balance is the full bucket less one token for
\* each call that returned true, however the calls interleaved.
C24_NoResidualDebit ==
    now = 0 /\ pc[Main] = "ready" /\ AllReturned =>
        limiter.tokens = BurstUnits - hist.grants * SecondsPerHour

\* C25 (as claimed): the CanSend call that grants a token takes exactly one token
\* from the bucket, and the goroutine it was granted to (a handler through Send
\* and ConsumeToken to its reply, the drain loop through its ready item) takes
\* nothing more for that email.
C25_OneTokenPerSend ==
    [][ \A p \in Senders \cup LWorkers :
            /\ pc[p] = "cansend" /\ pc'[p] = "granted" =>
                  limiter'.tokens = advance(limiter, now) - SecondsPerHour
            /\ pc[p] \in {"granted", "waitn", "sleep", "finish"} /\ pc'[p] # pc[p] =>
                  limiter' = limiter ]_vars

\* C26 (as claimed): no drain worker is ever suspended inside WaitN, waiting for
\* a token to accrue.
C26_DrainNeverWaits == \A w \in LWorkers : pc[w] # "sleep"

\* The email of a queue entry or of a goroutine.
Email(m) == [Recipients |-> m.Recipients, Subject |-> m.Subject, Body |-> m.Body]

\* C27: the drain loop takes each ready item in turn and keeps it unchanged through
\* CanSend; when CanSend has denied it, the loop's next step appends exactly one
\* entry to the queue, with the item's recipients, subject and body and
\* RetryAt = now + 10 s, and goes on to the next ready item: however often the
\* item has been queued before, it is queued again and not dropped.
C27_DeniedIsRequeued ==
    [][ \A w \in LWorkers :
            /\ pc[w] = "next" /\ pc'[w] = "cansend" =>
                  mail'[w] = Head(ready[w]) /\ ready'[w] = Tail(ready[w]) /\ queue' = queue
            /\ pc[w] \in {"cansend", "delay", "cancel"} =>
                  mail'[w] = mail[w] /\ ready'[w] = ready[w]
            /\ pc[w] = "denied" /\ pc'[w] # "denied" =>
                  /\ pc'[w] = "next"
                  /\ ready'[w] = ready[w]
                  /\ Len(queue') = Len(queue) + 1
                  /\ SubSeq(queue', 1, Len(queue)) = queue
                  /\ Email(queue'[Len(queue')]) = Email(mail[w])
                  /\ queue'[Len(queue')].RetryAt = now + RetryDelay ]_vars

\* C27 witness: an item that the drain loop has already put back once was denied
\* again and put back again: it is the queue's entry, with its third RetryAt.
C27_Witness ==
    /\ hist.nextQid = 4
    /\ Cardinality(hist.returned) = 2
    /\ Len(queue) = 1
    /\ queue[1].qid = 3
    /\ queue[1].RetryAt = now + RetryDelay
    /\ \E w \in LWorkers : pc[w] = "next"

\* C28 (as claimed): when Render fails for the task a poll worker was handed, that step ends
\* processTask with the limiter, the emails sent and the retry queue untouched;
\* the worker then records the task for deletion, the task is out of the table
\* when the tick ends, and no task with an unknown template is handed to
\* processTask a second time.
C28_RenderFailureDrops ==
    [][ \A w \in SWorkers :
            /\ pc[w] = "render" /\ RenderErr(scan[w].task.Template) /\ pc'[w] # "render" =>
                  /\ pc'[w] = "resume"
                  /\ limiter' = limiter /\ res' = res
                  /\ hist' = hist
                  /\ queue' = queue
                  /\ scan' = scan
            /\ pc[w] = "resume" /\ pc'[w] # "resume" =>
                  \/ scan[w].task.ID \in Elems(scan'[w].toDelete)
                  \/ pc'[w] = "select" /\ scan[w].task.ID \notin DOMAIN tasks'
            /\ TickEnds(w) =>
                  /\ \A i \in 1..Len(scan[w].toDelete) :
                        scan[w].toDelete[i] \notin DOMAIN tasks'
                  /\ scan[w].visited \cap Uids(tasks') = {}
            /\ Dispatches(w) /\ RenderErr(scan'[w].task.Template) =>
                  hist.dispatched[scan'[w].task.uid] = 0 ]_vars

\* The email processTask renders for a task (part_002:134-142).
Rendered(task) ==
    [Recipients |-> task.Recipients,
     Subject |-> DefaultSubject("Scheduled email from RuneBird",
                     RenderSubject(task.Template), task.Template),
     Body |-> RenderBody(task.Template)]

\* C29 (as claimed): when CanSend has denied a due task that rendered, the worker's
\* next step ends processTask with no Send and the limiter untouched, and appends
\* exactly one entry to the retry queue: the task's recipients with the rendered
\* subject (the default when it is empty) and body.  It is the task's only
\* processTask call (so its only queue entry), the task is recorded for deletion
\* and is out of the table when the tick ends.
C29_DeniedTaskQueuedOnce ==
    [][ \A w \in SWorkers :
            /\ pc[w] = "denied" /\ pc'[w] # "denied" =>
                  /\ pc'[w] = "resume"
                  /\ limiter' = limiter
                  /\ hist'.sends = hist.sends /\ hist'.sent = hist.sent
                  /\ Len(queue') = Len(queue) + 1
                  /\ SubSeq(queue', 1, Len(queue)) = queue
                  /\ Email(queue'[Len(queue')]) = Rendered(scan[w].task)
                  /\ queue'[Len(queue')].Subject # ""
                  /\ hist.dispatched[scan[w].task.uid] = 1
            /\ pc[w] = "resume" /\ pc'[w] # "resume" =>
                  /\ queue' = queue
                  /\ \/ scan[w].task.ID \in Elems(scan'[w].toDelete)
                     \/ pc'[w] = "select" /\ scan[w].task.ID \notin DOMAIN tasks'
            /\ TickEnds(w) => scan[w].visited \cap Uids(tasks') = {} ]_vars

\* C30 (as claimed): the step in which a poll worker calls Send, whatever Send
\* returns, ends processTask: nothing is queued and the token CanSend took is not
\* given back, then or when the worker goes on; Send is called for a task in its
\* only processTask call, once; the task is out of the table when the tick ends.
C30_SendOutcomeTerminal ==
    [][ \A w \in SWorkers :
            /\ pc[w] = "granted" /\ pc'[w] # "granted" =>
                  /\ pc'[w] = "resume"
                  /\ queue' = queue
                  /\ limiter' = limiter
                  /\ hist'.sends = hist.sends + 1
                  /\ hist'.sent = hist.sent \cup {Rendered(scan[w].task)}
                  /\ hist.dispatched[scan[w].task.uid] = 1
            /\ pc[w] = "resume" /\ pc'[w] # "resume" =>
                  /\ limiter' = limiter
                  /\ hist'.sends = hist.sends
                  /\ scan[w].task.uid \notin Uids(tasks') \/ pc'[w] = "render"
            /\ TickEnds(w) =>
                  \A i \in 1..Len(scan[w].toDelete) : scan[w].toDelete[i] \notin DOMAIN tasks' ]_vars

\* C31 (as claimed): a poll worker hands over a task only when its SendAt is at or
\* before the tick's now; the deletion that ends the tick leaves every task whose
\* SendAt is later than the tick's now in the table with all its fields; and a
\* task the tick began with whose SendAt equals the tick's now is gone by then.
C31_OnlyDueHandled ==
    [][ \A w \in SWorkers :
            /\ Dispatches(w) => scan'[w].task.SendAt.sec <= scan'[w].now
            /\ TickEnds(w) =>
                  /\ \A id \in DOMAIN tasks :
                        tasks[id].SendAt.sec > scan[w].now =>
                            id \in DOMAIN tasks' /\ tasks'[id] = tasks[id]
                  /\ \A id \in DOMAIN tasks' :
                        ~(tasks'[id].uid \in scan[w].start
                            /\ tasks'[id].SendAt.sec = scan[w].now) ]_vars

\* A poll worker is inside processTask for the task it was handed.
InProcessTask(w) == pc[w] \in {"render", "cansend", "delay", "cancel", "granted", "denied"}

\* C32 (as claimed): when a poll worker is about to call Render or Send for a
\* task, the task's id is not in the pending table, and a Schedule call with the
\* id of a task that is being dispatched is accepted.
C32_RemovedBeforeDispatch ==
    [][ /\ \A w \in SWorkers :
              pc'[w] \in {"render", "granted"} => scan'[w].task.ID \notin DOMAIN tasks'
        /\ ret' # ret /\ (\E w \in SWorkers : InProcessTask(w) /\ scan[w].task.ID = ret'.id)
              => ~ret'.err ]_vars

\* C33 (as claimed): a task leaves the pending table only in the step that ends a
\* poll worker's tick, and only when that tick handed this very task to
\* processTask; Schedule never removes or replaces a pending task.
C33_NoAcceptedTaskLost ==
    [][ \A u \in Uids(tasks) \ Uids(tasks') :
            \E w \in SWorkers :
                /\ TickEnds(w)
                /\ u \in scan[w].visited
                /\ hist.dispatched[u] >= 1 ]_vars

\* Stop was the last of Start and Stop to act, it has returned, and no poll
\* worker is inside a tick.
Stopped == ~s_isRunning /\ ~s_stopping /\ \A w \in SWorkers : ~InTick(w)

\* C34: while the scheduler is stopped no task is handed to processTask and none
\* leaves the table or changes; a Schedule call with a new id is accepted and its
\* task is in the table; and only a Start call ends that state.
C34_StoppedIsIdle ==
    [][ Stopped =>
            /\ \A w \in SWorkers : ~Dispatches(w) /\ pc'[w] \in {"none", "select"}
            /\ \A id \in DOMAIN tasks : id \in DOMAIN tasks' /\ tasks'[id] = tasks[id]
            /\ hist'.dispatched \in {hist.dispatched, Append(hist.dispatched, 0)}
            /\ ret' # ret /\ ret'.id \notin DOMAIN tasks =>
                  ~ret'.err /\ ret'.id \in DOMAIN tasks'
            /\ Stopped' \/ (s_isRunning' /\ ~s_isRunning) ]_vars

\* C34 witness: Stop has returned on a started scheduler with a poll worker still
\* at its select, and the task accepted last is due, pending and not dispatched.
C34_Witness ==
    /\ Stopped /\ s_cancelled
    /\ \E w \in SWorkers : pc[w] = "select"
    /\ ~ret.err /\ ret.id \in DOMAIN tasks
    /\ Due(tasks[ret.id], now)
    /\ tasks[ret.id].uid = hist.nextUid - 1
    /\ hist.dispatched[tasks[ret.id].uid] = 0
    /\ hist.removed[1] = 1

\* C35: a handler whose CanSend was denied calls no Send from its render to its
\* reply, and its next step is its last: it appends exactly one entry to the retry
\* queue, with the request's recipients and the rendered body and subject (the
\* "Email from RuneBird (<template>)" default when the template has none), leaves
\* the limiter as it is, and answers 200 without a ConsumeToken call.
C35_DeniedRequestQueued ==
    [][ \A h \in Senders :
            /\ pc[h] \in {"cansend", "delay", "cancel"} /\ pc'[h] # pc[h] =>
                  hist'.sends = hist.sends /\ queue' = queue
            /\ pc[h] = "denied" /\ pc'[h] # "denied" =>
                  /\ pc'[h] = "done"
                  /\ resp'[h] = 200
                  /\ limiter' = limiter /\ res'[h] = NoRes
                  /\ hist'.sends = hist.sends /\ hist'.sent = hist.sent
                  /\ Len(queue') = Len(queue) + 1
                  /\ SubSeq(queue', 1, Len(queue)) = queue
                  /\ queue'[Len(queue')].Recipients = h_req[h].Recipients
                  /\ queue'[Len(queue')].Body = RenderBody(h_req[h].Template)
                  /\ queue'[Len(queue')].Subject =
                        IF RenderSubject(h_req[h].Template) = ""
                        THEN "Email from RuneBird (" \o h_req[h].Template \o ")"
                        ELSE RenderSubject(h_req[h].Template) ]_vars

\* C35 witness: the request for the template without a subject was denied a
\* token while the other request's email was sent; it has its 200 and its email
\* is the queue's one entry, under the default subject.
C35_Witness ==
    \E h \in Senders :
        /\ pc[h] = "done" /\ resp[h] = 200
        /\ h_req[h].Path = "/send" /\ h_req[h].Template = "plain"
        /\ hist.sends = 1 /\ hist.grants = 1
        /\ Len(queue) = 1
        /\ queue[1].Subject = "Email from RuneBird (plain)"
        /\ queue[1].Recipients = h_req[h].Recipients

\* C36 (as claimed): a limiter that is running (started, or started again after a
\* Stop) has a drain worker, and a ConsumeToken call made while it is running
\* takes a token from the bucket.
C36_RestartWorks ==
    [][ /\ l_isRunning' /\ ~l_stopping' => \E w \in LWorkers : pc'[w] # "none"
        /\ \A h \in Senders :
              pc[h] = "waitn" /\ pc'[h] # "waitn" /\ l_isRunning /\ ~l_stopping =>
                  limiter'.tokens = advance(limiter, now) - SecondsPerHour ]_vars

\* C37 (as claimed): every /schedule request that passes validation is answered
\* 200 and puts one more task in the table, under an id no task in the table
\* has, also when another handler has read the same clock value for its id.
C37_EveryValidAccepted ==
    [][ \A h \in Senders :
            Serves(h, "/schedule") /\ ScheduleStatus(h_req'[h], now) = 0 =>
                /\ SchedId(now) \notin DOMAIN tasks
                /\ resp'[h] = 200
                /\ Cardinality(DOMAIN tasks') = Cardinality(DOMAIN tasks) + 1 ]_vars

====
